---- MODULE Spec2Model ----
(***************************************************************************)
(* Model of app/main.py: the upload_schedule handler that reads the "Plan" *)
(* sheet of an uploaded schedule into a grid of strings, scans it for the  *)
(* "Diana" / "Dzien" anchor, turns the day columns right of the anchor     *)
(* into calendar events and returns the serialized calendar.               *)
(*                                                                         *)
(* A cell is a Python str, modelled as a sequence of one-character         *)
(* strings, so that strip(), lower(), int() and strptime() are computed on *)
(* the characters.  Row, column and loop indices are 0-based as in the     *)
(* code; iat() converts to the 1-based sequences.  The one non-ASCII       *)
(* letter of the header marker, n with acute, is written "n'" (upper case  *)
(* "N'") and counts as one character.                                      *)
(***************************************************************************)
EXTENDS Integers, Sequences, FiniteSets, TLC

(***************************************************************************)
(* str primitives                                                          *)
(***************************************************************************)
\* The characters str.strip() removes and \s of a regular expression matches
\* (str.isspace()); a character with no spelling of its own is written by
\* its code point.
Whitespace ==
  {"\t", "\n", "U+000B", "\f", "\r", "U+001C", "U+001D",
   "U+001E", "U+001F", " ", "U+0085", "U+00A0", "U+1680", "U+2000",
   "U+2001", "U+2002", "U+2003", "U+2004", "U+2005", "U+2006", "U+2007",
   "U+2008", "U+2009", "U+200A", "U+2028", "U+2029", "U+202F", "U+205F",
   "U+3000"}

\* The characters int() ignores around a number: those of str.isspace()
\* but the four separators U+001C..U+001F.
IntWhitespace == Whitespace \ {"U+001C", "U+001D", "U+001E", "U+001F"}

\* [0-9]
Digits == {"0", "1", "2", "3", "4", "5", "6", "7", "8", "9"}

\* The decimal digits of every script (str.isdecimal(), \d of a regular
\* expression), each run in the order of its values 0..9.
DecimalRuns ==
  << <<"0", "1", "2", "3", "4", "5", "6", "7", "8", "9">>,
     <<"U+0660", "U+0661", "U+0662", "U+0663", "U+0664", "U+0665", "U+0666", "U+0667", "U+0668", "U+0669">>,
     <<"U+06F0", "U+06F1", "U+06F2", "U+06F3", "U+06F4", "U+06F5", "U+06F6", "U+06F7", "U+06F8", "U+06F9">>,
     <<"U+07C0", "U+07C1", "U+07C2", "U+07C3", "U+07C4", "U+07C5", "U+07C6", "U+07C7", "U+07C8", "U+07C9">>,
     <<"U+0966", "U+0967", "U+0968", "U+0969", "U+096A", "U+096B", "U+096C", "U+096D", "U+096E", "U+096F">>,
     <<"U+09E6", "U+09E7", "U+09E8", "U+09E9", "U+09EA", "U+09EB", "U+09EC", "U+09ED", "U+09EE", "U+09EF">>,
     <<"U+0A66", "U+0A67", "U+0A68", "U+0A69", "U+0A6A", "U+0A6B", "U+0A6C", "U+0A6D", "U+0A6E", "U+0A6F">>,
     <<"U+0AE6", "U+0AE7", "U+0AE8", "U+0AE9", "U+0AEA", "U+0AEB", "U+0AEC", "U+0AED", "U+0AEE", "U+0AEF">>,
     <<"U+0B66", "U+0B67", "U+0B68", "U+0B69", "U+0B6A", "U+0B6B", "U+0B6C", "U+0B6D", "U+0B6E", "U+0B6F">>,
     <<"U+0BE6", "U+0BE7", "U+0BE8", "U+0BE9", "U+0BEA", "U+0BEB", "U+0BEC", "U+0BED", "U+0BEE", "U+0BEF">>,
     <<"U+0C66", "U+0C67", "U+0C68", "U+0C69", "U+0C6A", "U+0C6B", "U+0C6C", "U+0C6D", "U+0C6E", "U+0C6F">>,
     <<"U+0CE6", "U+0CE7", "U+0CE8", "U+0CE9", "U+0CEA", "U+0CEB", "U+0CEC", "U+0CED", "U+0CEE", "U+0CEF">>,
     <<"U+0D66", "U+0D67", "U+0D68", "U+0D69", "U+0D6A", "U+0D6B", "U+0D6C", "U+0D6D", "U+0D6E", "U+0D6F">>,
     <<"U+0DE6", "U+0DE7", "U+0DE8", "U+0DE9", "U+0DEA", "U+0DEB", "U+0DEC", "U+0DED", "U+0DEE", "U+0DEF">>,
     <<"U+0E50", "U+0E51", "U+0E52", "U+0E53", "U+0E54", "U+0E55", "U+0E56", "U+0E57", "U+0E58", "U+0E59">>,
     <<"U+0ED0", "U+0ED1", "U+0ED2", "U+0ED3", "U+0ED4", "U+0ED5", "U+0ED6", "U+0ED7", "U+0ED8", "U+0ED9">>,
     <<"U+0F20", "U+0F21", "U+0F22", "U+0F23", "U+0F24", "U+0F25", "U+0F26", "U+0F27", "U+0F28", "U+0F29">>,
     <<"U+1040", "U+1041", "U+1042", "U+1043", "U+1044", "U+1045", "U+1046", "U+1047", "U+1048", "U+1049">>,
     <<"U+1090", "U+1091", "U+1092", "U+1093", "U+1094", "U+1095", "U+1096", "U+1097", "U+1098", "U+1099">>,
     <<"U+17E0", "U+17E1", "U+17E2", "U+17E3", "U+17E4", "U+17E5", "U+17E6", "U+17E7", "U+17E8", "U+17E9">>,
     <<"U+1810", "U+1811", "U+1812", "U+1813", "U+1814", "U+1815", "U+1816", "U+1817", "U+1818", "U+1819">>,
     <<"U+1946", "U+1947", "U+1948", "U+1949", "U+194A", "U+194B", "U+194C", "U+194D", "U+194E", "U+194F">>,
     <<"U+19D0", "U+19D1", "U+19D2", "U+19D3", "U+19D4", "U+19D5", "U+19D6", "U+19D7", "U+19D8", "U+19D9">>,
     <<"U+1A80", "U+1A81", "U+1A82", "U+1A83", "U+1A84", "U+1A85", "U+1A86", "U+1A87", "U+1A88", "U+1A89">>,
     <<"U+1A90", "U+1A91", "U+1A92", "U+1A93", "U+1A94", "U+1A95", "U+1A96", "U+1A97", "U+1A98", "U+1A99">>,
     <<"U+1B50", "U+1B51", "U+1B52", "U+1B53", "U+1B54", "U+1B55", "U+1B56", "U+1B57", "U+1B58", "U+1B59">>,
     <<"U+1BB0", "U+1BB1", "U+1BB2", "U+1BB3", "U+1BB4", "U+1BB5", "U+1BB6", "U+1BB7", "U+1BB8", "U+1BB9">>,
     <<"U+1C40", "U+1C41", "U+1C42", "U+1C43", "U+1C44", "U+1C45", "U+1C46", "U+1C47", "U+1C48", "U+1C49">>,
     <<"U+1C50", "U+1C51", "U+1C52", "U+1C53", "U+1C54", "U+1C55", "U+1C56", "U+1C57", "U+1C58", "U+1C59">>,
     <<"U+A620", "U+A621", "U+A622", "U+A623", "U+A624", "U+A625", "U+A626", "U+A627", "U+A628", "U+A629">>,
     <<"U+A8D0", "U+A8D1", "U+A8D2", "U+A8D3", "U+A8D4", "U+A8D5", "U+A8D6", "U+A8D7", "U+A8D8", "U+A8D9">>,
     <<"U+A900", "U+A901", "U+A902", "U+A903", "U+A904", "U+A905", "U+A906", "U+A907", "U+A908", "U+A909">>,
     <<"U+A9D0", "U+A9D1", "U+A9D2", "U+A9D3", "U+A9D4", "U+A9D5", "U+A9D6", "U+A9D7", "U+A9D8", "U+A9D9">>,
     <<"U+A9F0", "U+A9F1", "U+A9F2", "U+A9F3", "U+A9F4", "U+A9F5", "U+A9F6", "U+A9F7", "U+A9F8", "U+A9F9">>,
     <<"U+AA50", "U+AA51", "U+AA52", "U+AA53", "U+AA54", "U+AA55", "U+AA56", "U+AA57", "U+AA58", "U+AA59">>,
     <<"U+ABF0", "U+ABF1", "U+ABF2", "U+ABF3", "U+ABF4", "U+ABF5", "U+ABF6", "U+ABF7", "U+ABF8", "U+ABF9">>,
     <<"U+FF10", "U+FF11", "U+FF12", "U+FF13", "U+FF14", "U+FF15", "U+FF16", "U+FF17", "U+FF18", "U+FF19">>,
     <<"U+104A0", "U+104A1", "U+104A2", "U+104A3", "U+104A4", "U+104A5", "U+104A6", "U+104A7", "U+104A8", "U+104A9">>,
     <<"U+10D30", "U+10D31", "U+10D32", "U+10D33", "U+10D34", "U+10D35", "U+10D36", "U+10D37", "U+10D38", "U+10D39">>,
     <<"U+11066", "U+11067", "U+11068", "U+11069", "U+1106A", "U+1106B", "U+1106C", "U+1106D", "U+1106E", "U+1106F">>,
     <<"U+110F0", "U+110F1", "U+110F2", "U+110F3", "U+110F4", "U+110F5", "U+110F6", "U+110F7", "U+110F8", "U+110F9">>,
     <<"U+11136", "U+11137", "U+11138", "U+11139", "U+1113A", "U+1113B", "U+1113C", "U+1113D", "U+1113E", "U+1113F">>,
     <<"U+111D0", "U+111D1", "U+111D2", "U+111D3", "U+111D4", "U+111D5", "U+111D6", "U+111D7", "U+111D8", "U+111D9">>,
     <<"U+112F0", "U+112F1", "U+112F2", "U+112F3", "U+112F4", "U+112F5", "U+112F6", "U+112F7", "U+112F8", "U+112F9">>,
     <<"U+11450", "U+11451", "U+11452", "U+11453", "U+11454", "U+11455", "U+11456", "U+11457", "U+11458", "U+11459">>,
     <<"U+114D0", "U+114D1", "U+114D2", "U+114D3", "U+114D4", "U+114D5", "U+114D6", "U+114D7", "U+114D8", "U+114D9">>,
     <<"U+11650", "U+11651", "U+11652", "U+11653", "U+11654", "U+11655", "U+11656", "U+11657", "U+11658", "U+11659">>,
     <<"U+116C0", "U+116C1", "U+116C2", "U+116C3", "U+116C4", "U+116C5", "U+116C6", "U+116C7", "U+116C8", "U+116C9">>,
     <<"U+11730", "U+11731", "U+11732", "U+11733", "U+11734", "U+11735", "U+11736", "U+11737", "U+11738", "U+11739">>,
     <<"U+118E0", "U+118E1", "U+118E2", "U+118E3", "U+118E4", "U+118E5", "U+118E6", "U+118E7", "U+118E8", "U+118E9">>,
     <<"U+11950", "U+11951", "U+11952", "U+11953", "U+11954", "U+11955", "U+11956", "U+11957", "U+11958", "U+11959">>,
     <<"U+11C50", "U+11C51", "U+11C52", "U+11C53", "U+11C54", "U+11C55", "U+11C56", "U+11C57", "U+11C58", "U+11C59">>,
     <<"U+11D50", "U+11D51", "U+11D52", "U+11D53", "U+11D54", "U+11D55", "U+11D56", "U+11D57", "U+11D58", "U+11D59">>,
     <<"U+11DA0", "U+11DA1", "U+11DA2", "U+11DA3", "U+11DA4", "U+11DA5", "U+11DA6", "U+11DA7", "U+11DA8", "U+11DA9">>,
     <<"U+16A60", "U+16A61", "U+16A62", "U+16A63", "U+16A64", "U+16A65", "U+16A66", "U+16A67", "U+16A68", "U+16A69">>,
     <<"U+16AC0", "U+16AC1", "U+16AC2", "U+16AC3", "U+16AC4", "U+16AC5", "U+16AC6", "U+16AC7", "U+16AC8", "U+16AC9">>,
     <<"U+16B50", "U+16B51", "U+16B52", "U+16B53", "U+16B54", "U+16B55", "U+16B56", "U+16B57", "U+16B58", "U+16B59">>,
     <<"U+1D7CE", "U+1D7CF", "U+1D7D0", "U+1D7D1", "U+1D7D2", "U+1D7D3", "U+1D7D4", "U+1D7D5", "U+1D7D6", "U+1D7D7">>,
     <<"U+1D7D8", "U+1D7D9", "U+1D7DA", "U+1D7DB", "U+1D7DC", "U+1D7DD", "U+1D7DE", "U+1D7DF", "U+1D7E0", "U+1D7E1">>,
     <<"U+1D7E2", "U+1D7E3", "U+1D7E4", "U+1D7E5", "U+1D7E6", "U+1D7E7", "U+1D7E8", "U+1D7E9", "U+1D7EA", "U+1D7EB">>,
     <<"U+1D7EC", "U+1D7ED", "U+1D7EE", "U+1D7EF", "U+1D7F0", "U+1D7F1", "U+1D7F2", "U+1D7F3", "U+1D7F4", "U+1D7F5">>,
     <<"U+1D7F6", "U+1D7F7", "U+1D7F8", "U+1D7F9", "U+1D7FA", "U+1D7FB", "U+1D7FC", "U+1D7FD", "U+1D7FE", "U+1D7FF">>,
     <<"U+1E140", "U+1E141", "U+1E142", "U+1E143", "U+1E144", "U+1E145", "U+1E146", "U+1E147", "U+1E148", "U+1E149">>,
     <<"U+1E2F0", "U+1E2F1", "U+1E2F2", "U+1E2F3", "U+1E2F4", "U+1E2F5", "U+1E2F6", "U+1E2F7", "U+1E2F8", "U+1E2F9">>,
     <<"U+1E950", "U+1E951", "U+1E952", "U+1E953", "U+1E954", "U+1E955", "U+1E956", "U+1E957", "U+1E958", "U+1E959">>,
     <<"U+1FBF0", "U+1FBF1", "U+1FBF2", "U+1FBF3", "U+1FBF4", "U+1FBF5", "U+1FBF6", "U+1FBF7", "U+1FBF8", "U+1FBF9">> >>

DecimalDigits == {DecimalRuns[r][k] : r \in 1..Len(DecimalRuns), k \in 1..10}

\* The value of a decimal digit of any script.
DigitValue(ch) ==
  CASE ch = "0" -> 0 [] ch = "1" -> 1 [] ch = "2" -> 2 [] ch = "3" -> 3
    [] ch = "4" -> 4 [] ch = "5" -> 5 [] ch = "6" -> 6 [] ch = "7" -> 7
    [] ch = "8" -> 8 [] ch = "9" -> 9
    [] OTHER ->
         (CHOOSE k \in 1..10 : \E r \in 1..Len(DecimalRuns) : DecimalRuns[r][k] = ch) - 1

DigitChar(n) ==
  CASE n = 0 -> "0" [] n = 1 -> "1" [] n = 2 -> "2" [] n = 3 -> "3"
    [] n = 4 -> "4" [] n = 5 -> "5" [] n = 6 -> "6" [] n = 7 -> "7"
    [] n = 8 -> "8" [] n = 9 -> "9"

\* str.lower() on one character (the letters the inputs draw on).
LowerChar(ch) ==
  CASE ch = "A" -> "a" [] ch = "B" -> "b" [] ch = "C" -> "c" [] ch = "D" -> "d"
    [] ch = "E" -> "e" [] ch = "F" -> "f" [] ch = "G" -> "g" [] ch = "H" -> "h"
    [] ch = "I" -> "i" [] ch = "J" -> "j" [] ch = "K" -> "k" [] ch = "L" -> "l"
    [] ch = "M" -> "m" [] ch = "N" -> "n" [] ch = "O" -> "o" [] ch = "P" -> "p"
    [] ch = "Q" -> "q" [] ch = "R" -> "r" [] ch = "S" -> "s" [] ch = "T" -> "t"
    [] ch = "U" -> "u" [] ch = "V" -> "v" [] ch = "W" -> "w" [] ch = "X" -> "x"
    [] ch = "Y" -> "y" [] ch = "Z" -> "z" [] ch = "N'" -> "n'"
    [] OTHER -> ch

lower(s) == [i \in 1..Len(s) |-> LowerChar(s[i])]

\* s without its leading and trailing characters of the set ws: from the
\* first to the last character outside ws.
StripOf(s, ws) ==
  IF \A i \in 1..Len(s) : s[i] \in ws THEN <<>>
  ELSE SubSeq(s,
              CHOOSE i \in 1..Len(s) :
                s[i] \notin ws /\ \A j \in 1..(i - 1) : s[j] \in ws,
              CHOOSE i \in 1..Len(s) :
                s[i] \notin ws /\ \A j \in (i + 1)..Len(s) : s[j] \in ws)

\* str.strip(): leading and trailing whitespace removed.
strip(s) == StripOf(s, Whitespace)

RECURSIVE DigitsToNat(_)
DigitsToNat(s) ==
  IF s = <<>> THEN 0
  ELSE 10 * DigitsToNat(SubSeq(s, 1, Len(s) - 1)) + DigitValue(s[Len(s)])

\* sys.get_int_max_str_digits(): the most digits int() converts.
MaxStrDigits == 4300

\* A digit string without its leading zeros, which leave the value alone.
Significant(digits) ==
  LET nonzero == {i \in 1..Len(digits) : DigitValue(digits[i]) # 0}
  IN  IF nonzero = {} THEN <<>>
      ELSE SubSeq(digits, CHOOSE i \in nonzero : \A j \in nonzero : i <= j, Len(digits))

\* int(val) for a str: whitespace around the number ignored, then an
\* optional sign and decimal digits of any script, single underscores
\* between digits, at most MaxStrDigits digits (leading zeros counted,
\* underscores not).  ok = FALSE stands for ValueError.
int(val) ==
  LET text   == StripOf(val, IntWhitespace)
      signed == text # <<>> /\ text[1] \in {"+", "-"}
      body   == IF signed THEN Tail(text) ELSE text
      n      == Len(body)
      wellFormed ==
        /\ n > 0
        /\ \A i \in 1..n : body[i] \in DecimalDigits \cup {"_"}
        /\ body[1] # "_"
        /\ body[n] # "_"
        /\ \A i \in 1..(n - 1) : ~(body[i] = "_" /\ body[i + 1] = "_")
      digits == SelectSeq(body, LAMBDA ch : ch # "_")
  IN  IF ~wellFormed \/ Len(digits) > MaxStrDigits THEN [ok |-> FALSE, value |-> 0]
      ELSE [ok |-> TRUE,
            value |-> IF signed /\ text[1] = "-"
                      THEN 0 - DigitsToNat(Significant(digits))
                      ELSE DigitsToNat(Significant(digits))]

RECURSIVE NatToDigits(_)
NatToDigits(n) ==
  IF n < 10 THEN <<DigitChar(n)>>
  ELSE NatToDigits(n \div 10) \o <<DigitChar(n % 10)>>

\* f"{n}"
FormatInt(n) == IF n < 0 THEN <<"-">> \o NatToDigits(0 - n) ELSE NatToDigits(n)

\* f"{n:02d}": zero-padded to width 2, the sign counted in the width.
FormatInt02(n) ==
  LET plain == FormatInt(n)
  IN  IF Len(plain) >= 2 THEN plain
      ELSE IF n < 0 THEN <<"-">> \o <<"0">> \o Tail(plain)
      ELSE <<"0">> \o plain

(***************************************************************************)
(* datetime: a naive datetime is a record of its six fields.               *)
(***************************************************************************)
_is_leap(year) == year % 4 = 0 /\ (year % 100 # 0 \/ year % 400 = 0)

_DAYS_IN_MONTH == <<31, 28, 31, 30, 31, 30, 31, 31, 30, 31, 30, 31>>

_DAYS_BEFORE_MONTH == <<0, 31, 59, 90, 120, 151, 181, 212, 243, 273, 304, 334>>

_days_in_month(year, month) ==
  IF month = 2 /\ _is_leap(year) THEN 29 ELSE _DAYS_IN_MONTH[month]

_days_before_year(year) ==
  LET y == year - 1 IN y * 365 + (y \div 4) - (y \div 100) + (y \div 400)

_days_before_month(year, month) ==
  _DAYS_BEFORE_MONTH[month] + (IF month > 2 /\ _is_leap(year) THEN 1 ELSE 0)

\* date.toordinal(): 0001-01-01 is day 1.
_ymd2ord(year, month, day) ==
  _days_before_year(year) + _days_before_month(year, month) + day

\* date.fromordinal(n), by the 400/100/4/1-year cycles.
_ord2ymd(n) ==
  LET n0   == n - 1
      n400 == n0 \div 146097
      r400 == n0 % 146097
      n100 == r400 \div 36524
      r100 == r400 % 36524
      n4   == r100 \div 1461
      r4   == r100 % 1461
      n1   == r4 \div 365
      r1   == r4 % 365
      year == n400 * 400 + 1 + n100 * 100 + n4 * 4 + n1
  IN  IF n1 = 4 \/ n100 = 4 THEN <<year - 1, 12, 31>>
      ELSE LET leapyear  == n1 = 3 /\ (n4 # 24 \/ n100 = 3)
               guess     == (r1 + 50) \div 32
               preceding == _DAYS_BEFORE_MONTH[guess]
                            + (IF guess > 2 /\ leapyear THEN 1 ELSE 0)
               month     == IF preceding > r1 THEN guess - 1 ELSE guess
               before    == IF preceding > r1
                            THEN preceding - (_DAYS_IN_MONTH[month]
                                   + (IF month = 2 /\ leapyear THEN 1 ELSE 0))
                            ELSE preceding
           IN  <<year, month, r1 - before + 1>>

\* The placeholder carried where there is no datetime.
NoDatetime ==
  [year |-> 0, month |-> 0, day |-> 0, hour |-> 0, minute |-> 0, second |-> 0]

\* datetime(year, month, day, hour, minute, second): ok = FALSE stands for
\* the ValueError of _check_date_fields / _check_time_fields.
datetime(year, month, day, hour, minute, second) ==
  IF /\ 1 <= year /\ year <= 9999
     /\ 1 <= month /\ month <= 12
     /\ 1 <= day /\ day <= _days_in_month(year, month)
     /\ 0 <= hour /\ hour <= 23
     /\ 0 <= minute /\ minute <= 59
     /\ 0 <= second /\ second <= 59
  THEN [ok |-> TRUE,
        dt |-> [year |-> year, month |-> month, day |-> day,
                hour |-> hour, minute |-> minute, second |-> second]]
  ELSE [ok |-> FALSE, dt |-> NoDatetime]

\* a <= b on naive datetimes: field by field, most significant first.
DatetimeLe(a, b) ==
  LET ka == <<a.year, a.month, a.day, a.hour, a.minute, a.second>>
      kb == <<b.year, b.month, b.day, b.hour, b.minute, b.second>>
  IN  \/ ka = kb
      \/ \E i \in 1..6 : ka[i] < kb[i] /\ \A j \in 1..(i - 1) : ka[j] = kb[j]

\* dt + pd.Timedelta(days=1): through the ordinal of the date, the time of
\* day kept.  ok = FALSE stands for OverflowError (past 9999-12-31).
AddOneDay(dt) ==
  LET ord == _ymd2ord(dt.year, dt.month, dt.day) + 1
  IN  IF ord > _ymd2ord(9999, 12, 31) THEN [ok |-> FALSE, dt |-> dt]
      ELSE LET ymd == _ord2ymd(ord)
           IN  [ok |-> TRUE,
                dt |-> [dt EXCEPT !.year = ymd[1], !.month = ymd[2], !.day = ymd[3]]]

(***************************************************************************)
(* datetime.strptime(text, "%Y-%m-%d %H:%M:%S"): the format is compiled to *)
(* a regular expression, one group per directive, matched at the start of  *)
(* the text by backtracking over each group's alternatives in order; text  *)
(* left after the match is an error.                                       *)
(***************************************************************************)
StrptimeFormat == <<"%Y", "-", "%m", "-", "%d", " ", "%H", ":", "%M", ":", "%S">>

CharAt(s, p) == IF 1 <= p /\ p <= Len(s) THEN s[p] ELSE "<end>"

\* Of the alternatives <<matches, length>> of a group, the lengths of those
\* that match, in order.
Matching(alts) ==
  LET hit == SelectSeq(alts, LAMBDA x : x[1])
  IN  [i \in 1..Len(hit) |-> hit[i][2]]

\* The lengths a format token can match at position p, in the order the
\* regular expression tries its alternatives; \d is a decimal digit of any
\* script, a class such as [1-9] holds the ASCII digits only.
TokenAlternatives(tok, s, p) ==
  LET a  == CharAt(s, p)
      b  == CharAt(s, p + 1)
      d1 == a \in DecimalDigits
  IN  CASE tok = "%Y" ->   \* \d\d\d\d
             IF \A k \in 0..3 : CharAt(s, p + k) \in DecimalDigits THEN <<4>> ELSE <<>>
        [] tok = "%m" ->   \* 1[0-2]|0[1-9]|[1-9]
             Matching(<< <<a = "1" /\ b \in {"0", "1", "2"}, 2>>,
                     <<a = "0" /\ b \in Digits \ {"0"}, 2>>,
                     <<a \in Digits \ {"0"}, 1>> >>)
        [] tok = "%d" ->   \* 3[01]|[12]\d|0[1-9]|[1-9]| [1-9]
             Matching(<< <<a = "3" /\ b \in {"0", "1"}, 2>>,
                     <<a \in {"1", "2"} /\ b \in DecimalDigits, 2>>,
                     <<a = "0" /\ b \in Digits \ {"0"}, 2>>,
                     <<a \in Digits \ {"0"}, 1>>,
                     <<a = " " /\ b \in Digits \ {"0"}, 2>> >>)
        [] tok = "%H" ->   \* 2[0-3]|[0-1]\d|\d
             Matching(<< <<a = "2" /\ b \in {"0", "1", "2", "3"}, 2>>,
                     <<a \in {"0", "1"} /\ b \in DecimalDigits, 2>>,
                     <<d1, 1>> >>)
        [] tok = "%M" ->   \* [0-5]\d|\d
             Matching(<< <<a \in {"0", "1", "2", "3", "4", "5"} /\ b \in DecimalDigits, 2>>,
                     <<d1, 1>> >>)
        [] tok = "%S" ->   \* 6[0-1]|[0-5]\d|\d
             Matching(<< <<a = "6" /\ b \in {"0", "1"}, 2>>,
                     <<a \in {"0", "1", "2", "3", "4", "5"} /\ b \in DecimalDigits, 2>>,
                     <<d1, 1>> >>)
        [] tok = " " ->    \* \s+, greedy
             LET run == CHOOSE k \in 0..Len(s) :
                          /\ \A j \in 0..(k - 1) : CharAt(s, p + j) \in Whitespace
                          /\ CharAt(s, p + k) \notin Whitespace
             IN  [i \in 1..run |-> run + 1 - i]
        [] OTHER ->        \* a literal character
             IF a = tok THEN <<1>> ELSE <<>>

RECURSIVE MatchFrom(_, _, _, _)
RECURSIVE TryAlternatives(_, _, _, _, _, _)
\* The first match of tokens i.. of fmt at position p of s: the length each
\* token matched, or ok = FALSE.
MatchFrom(fmt, i, s, p) ==
  IF i > Len(fmt) THEN [ok |-> TRUE, lens |-> <<>>]
  ELSE TryAlternatives(fmt, i, s, p, TokenAlternatives(fmt[i], s, p), 1)

TryAlternatives(fmt, i, s, p, alts, k) ==
  IF k > Len(alts) THEN [ok |-> FALSE, lens |-> <<>>]
  ELSE LET rest == MatchFrom(fmt, i + 1, s, p + alts[k])
       IN  IF rest.ok THEN [ok |-> TRUE, lens |-> <<alts[k]>> \o rest.lens]
           ELSE TryAlternatives(fmt, i, s, p, alts, k + 1)

RECURSIVE SumTo(_, _)
SumTo(lens, n) == IF n = 0 THEN 0 ELSE lens[n] + SumTo(lens, n - 1)

\* The datetime of a match m of the format on text: the groups as integers.
MatchToDatetime(text, m) ==
  LET group(i) == SubSeq(text, SumTo(m.lens, i - 1) + 1, SumTo(m.lens, i))
      num(i) == int(group(i)).value
  IN  IF ~m.ok \/ SumTo(m.lens, Len(m.lens)) # Len(text)
      THEN [ok |-> FALSE, dt |-> NoDatetime]
      ELSE datetime(num(1), num(3), num(5), num(7), num(9), num(11))

strptime(text) == MatchToDatetime(text, MatchFrom(StrptimeFormat, 1, text, 1))

(***************************************************************************)
(* The grid (the DataFrame df) and the scan of upload_schedule.            *)
(***************************************************************************)
Rows(g) == Len(g)

Cols(g) == IF Len(g) = 0 THEN 0 ELSE Len(g[1])

\* df.iat[row, col], 0-based.
iat(g, row, col) == g[row + 1][col + 1]

MarkerName == <<"d", "i", "a", "n", "a">>

HeaderMarker == <<"d", "z", "i", "e", "n'">>

MidnightSentinel == <<"2", "4", ":", "0", "0">>

\* The event name, a Cyrillic word in the code, in Latin letters here.
EventName == "Rabota"

\* IsAnchor without the test of the cell below.
IsAnchorMarkerOnly(g, row, col) ==
  lower(strip(iat(g, row, col))) = MarkerName

\* The anchor test: the cell is the marker name and the cell below it, in
\* the same column, is the header marker.
IsAnchor(g, row, col) ==
  /\ lower(strip(iat(g, row, col))) = MarkerName
  /\ row + 1 < Rows(g)
  /\ lower(strip(iat(g, row + 1, col))) = HeaderMarker

\* The cell `below` rows under the anchor row in column c, "" past the grid.
RawBelow(g, row, below, c) ==
  IF row + below < Rows(g) THEN strip(iat(g, row + below, c)) ELSE <<>>

\* f"{year}-{month:02d}-{day:02d} {raw}"
ComposeText(year, month, day, raw) ==
  FormatInt(year) \o <<"-">> \o FormatInt02(month) \o <<"-">>
    \o FormatInt02(day) \o <<" ">> \o raw

\* The day after a date, at 00:00.
NextMidnight(base) ==
  IF ~base.ok THEN [ok |-> FALSE, dt |-> NoDatetime]
  ELSE LET next == AddOneDay(base.dt)
       IN  IF ~next.ok THEN [ok |-> FALSE, dt |-> NoDatetime]
           ELSE [ok |-> TRUE, dt |-> [next.dt EXCEPT !.hour = 0, !.minute = 0]]

\* The base end datetime: midnight of the next day for the sentinel, the
\* end time on the same day otherwise.
EndBase(year, month, day, end_raw) ==
  IF end_raw = MidnightSentinel
  THEN NextMidnight(datetime(year, month, day, 0, 0, 0))
  ELSE strptime(ComposeText(year, month, day, end_raw))

\* OvernightAdjust that never moves the end.
OvernightAdjustNever(start_dt, end_dt) == [ok |-> TRUE, dt |-> end_dt]

\* OvernightAdjust with `<` for `<=`.
OvernightAdjustStrict(start_dt, end_dt) ==
  IF DatetimeLe(end_dt, start_dt) /\ end_dt # start_dt THEN AddOneDay(end_dt)
  ELSE [ok |-> TRUE, dt |-> end_dt]

\* An end not after the start moves to the next day.
OvernightAdjust(start_dt, end_dt) ==
  IF DatetimeLe(end_dt, start_dt) THEN AddOneDay(end_dt)
  ELSE [ok |-> TRUE, dt |-> end_dt]

\* The outcome of one iteration of the while loop:
\*   "skip"     - empty or non-integer header, day outside 1..31, or an
\*                empty time cell: c += 1 and nothing else;
\*   "continue" - start_raw = end_raw: `continue`, the column index kept;
\*   "error"    - an exception in the try block, caught and printed;
\*   "event"    - the event to add.
Outcome(kind, day, begin, end) ==
  [kind |-> kind, day |-> day, begin |-> begin, end |-> end]

EventOrError(day, begin, end_dt) ==
  IF ~end_dt.ok THEN Outcome("error", day, NoDatetime, NoDatetime)
  ELSE Outcome("event", day, begin, end_dt.dt)

\* The try block once both datetimes were attempted.
Assemble(day, start_dt, end_base) ==
  IF ~start_dt.ok \/ ~end_base.ok
  THEN Outcome("error", day, NoDatetime, NoDatetime)
  ELSE EventOrError(day, start_dt.dt, OvernightAdjust(start_dt.dt, end_base.dt))

\* The try block of a day column whose time cells are both present.
MakeEvent(year, month, day, start_raw, end_raw) ==
  IF start_raw = end_raw THEN Outcome("continue", day, NoDatetime, NoDatetime)
  ELSE Assemble(day,
                strptime(ComposeText(year, month, day, start_raw)),
                EndBase(year, month, day, end_raw))

\* A column whose header cell is not empty.
DayColumn(day, start_raw, end_raw, month, year) ==
  IF ~day.ok THEN Outcome("skip", 0, NoDatetime, NoDatetime)
  ELSE IF ~(1 <= day.value /\ day.value <= 31)
  THEN Outcome("skip", 0, NoDatetime, NoDatetime)
  ELSE IF start_raw = <<>> \/ end_raw = <<>>
  THEN Outcome("skip", 0, NoDatetime, NoDatetime)
  ELSE MakeEvent(year, month, day.value, start_raw, end_raw)

\* One iteration of the while loop at column c of the header row of the
\* anchor in `row`.
ProcessColumn(g, row, c, month, year) ==
  IF strip(iat(g, row + 1, c)) = <<>>
  THEN Outcome("skip", 0, NoDatetime, NoDatetime)
  ELSE DayColumn(int(strip(iat(g, row + 1, c))),
                 RawBelow(g, row, 2, c), RawBelow(g, row, 3, c), month, year)

\* cal.events.add(Event(name, begin, end)): cal.events is a set and every
\* Event gets a fresh unique uid, so no two events are ever equal.
AddEvent(evts, begin, end) ==
  evts \cup {[uid |-> Cardinality(evts) + 1, name |-> EventName,
              begin |-> begin, end |-> end]}

\* The orders in which a set can be iterated.
Orderings(S) ==
  {f \in [1..Cardinality(S) -> S] : \A i, j \in 1..Cardinality(S) : f[i] = f[j] => i = j}

(***************************************************************************)
(* Inputs: the cells, day columns and grids the uploads are drawn from.    *)
(***************************************************************************)
cEmpty == <<>>

cDiana == <<"D", "i", "a", "n", "a">>

cDianaLoud == <<" ", "D", "I", "A", "N", "A", " ">>

cAnna == <<"A", "n", "n", "a">>

cDay == <<"D", "a", "y">>

c0 == <<"0">>

c5 == <<"5">>

c12 == <<"1", "2">>

c15 == <<"1", "5">>

c28 == <<"2", "8">>

c31 == <<"3", "1">>

c32 == <<"3", "2">>

cX == <<"x">>

c7Padded == <<" ", "7", " ">>

t0800 == <<"0", "8", ":", "0", "0", ":", "0", "0">>

t800 == <<"8", ":", "0", "0", ":", "0", "0">>

t1600 == <<"1", "6", ":", "0", "0", ":", "0", "0">>

t2200 == <<"2", "2", ":", "0", "0", ":", "0", "0">>

t0600 == <<"0", "6", ":", "0", "0", ":", "0", "0">>

t2400 == <<"2", "4", ":", "0", "0">>

t240000 == <<"2", "4", ":", "0", "0", ":", "0", "0">>

tShort0800 == <<"0", "8", ":", "0", "0">>

tShort1600 == <<"1", "6", ":", "0", "0">>

tIso0130 == <<"P", "T", "1", "H", "3", "0", "M">>

tIso8 == <<"P", "T", "8", "H">>

cDzien == <<"D", "z", "i", "e", "n'">>

cDzienLoud == <<"D", "Z", "I", "E", "N'", " ">>

\* Cells with whitespace other than the space and digits of another script:
\* form feed, no-break space, ideographic space, file separator; the
\* Arabic-Indic digits 3 and 8.
cDianaNbsp == <<"D", "i", "a", "n", "a", "U+00A0">>

cDzienWide == <<"U+3000", "d", "z", "i", "e", "n'", "U+001C">>

c5FormFeed == <<"\f", "5", " ">>

c3Arabic == <<"U+0663">>

c1FsInside == <<"1", "U+001C", "2">>

\* Day 5 written with leading zeros: as many digits as int() converts, and
\* one more.
c5LongestRead == [i \in 1..(MaxStrDigits - 1) |-> "0"] \o <<"5">>

c5TooLong == [i \in 1..MaxStrDigits |-> "0"] \o <<"5">>

t08Arabic == <<"0", "U+0668", ":", "0", "0", ":", "0", "0">>

t1600Nbsp == <<"1", "6", ":", "0", "0", ":", "0", "0", "U+00A0">>

\* A day column: its header cell, start cell and end cell.
ColumnKinds ==
  { <<c5, t0800, t1600>>,            \* same-day shift
    <<c28, t2200, t0600>>,           \* overnight shift
    <<c31, t0800, t2400>>,           \* "24:00" on the last day of a long month
    <<c15, t0800, t2400>>,           \* "24:00" mid-month
    <<c15, t0800, t240000>>,         \* "24:00:00"
    <<c5, t800, t0800>>,             \* same instant, written differently
    <<c12, t0800, t0800>>,           \* start = end
    <<c12, tShort0800, tShort1600>>, \* HH:MM
    <<c12, tIso0130, tIso8>>,        \* ISO-8601 durations
    <<c12, cEmpty, t1600>>,          \* empty start
    <<cEmpty, t0800, t1600>>,        \* empty header
    <<c32, t0800, t1600>> }          \* day out of range

\* The largest number of day columns of a generated grid.
MaxDayCols == 2

Blank(n) == [i \in 1..n |-> cEmpty]

Column(kinds, k) == [i \in 1..Len(kinds) |-> kinds[i][k]]

\* An anchor cell over a header cell, the day columns to their right.
Block(anchor, header, kinds) ==
  << <<anchor>> \o Blank(Len(kinds)),
     <<header>> \o Column(kinds, 1),
     <<cEmpty>> \o Column(kinds, 2),
     <<cEmpty>> \o Column(kinds, 3) >>

GeneratedGrids ==
  {Block(cDiana, cDzien, kinds) :
     kinds \in UNION {[1..n -> ColumnKinds] : n \in 1..MaxDayCols}}

SameDay == <<c5, t0800, t1600>>

Overnight == <<c28, t2200, t0600>>

UntilMidnight == <<c31, t0800, t2400>>

ExampleGrids ==
  { <<>>,
    \* no marker; marker in the last row; marker without the header marker
    Block(cAnna, cDzien, <<SameDay>>),
    <<Block(cDiana, cDzien, <<SameDay>>)[1]>>,
    Block(cDiana, cDay, <<SameDay, Overnight>>),
    Block(cDzien, cDiana, <<SameDay>>),
    \* fewer rows below the header row than the two time rows
    SubSeq(Block(cDiana, cDzien, <<SameDay, Overnight>>), 1, 2),
    SubSeq(Block(cDiana, cDzien, <<SameDay, Overnight>>), 1, 3),
    \* case and padding of the markers
    Block(cDianaLoud, cDzienLoud, <<SameDay>>),
    \* header row "", "5", "x", "12" and a repeated day
    Block(cDiana, cDzien,
          << <<cEmpty, t0800, t1600>>, <<c5, t0800, t1600>>,
             <<cX, t0800, t1600>>, <<c12, t0800, t1600>> >>),
    Block(cDiana, cDzien, <<SameDay, SameDay, Overnight>>),
    \* day 0, a padded day number, an empty end cell
    Block(cDiana, cDzien,
          << <<c0, t0800, t1600>>, <<c7Padded, t0800, t1600>>,
             <<c12, t0800, cEmpty>> >>),
    Block(cDiana, cDzien, <<SameDay, Overnight, UntilMidnight>>),
    \* an overnight shift from the last day of a month, and of the year
    Block(cDiana, cDzien, << <<c31, t2200, t0600>> >>),
    \* whitespace of every kind stripped, digits of another script read
    Block(cDianaNbsp, cDzienWide,
          << <<c5FormFeed, t08Arabic, t1600Nbsp>>, <<c3Arabic, t0800, t1600>>,
             <<c1FsInside, t0800, t1600>> >>),
    \* a day number at, and past, the digit limit of int()
    Block(cDiana, cDzien,
          << <<c5TooLong, t0800, t1600>>, <<c5LongestRead, t2200, t0600>> >>),
    \* two anchors in one row, the second inside the first one's header row
    << <<cDiana, cDiana, cEmpty, cEmpty>>,
       <<cDzien, cDzien, c5, c12>>,
       <<cEmpty, cEmpty, t0800, t2200>>,
       <<cEmpty, cEmpty, t1600, t0600>> >>,
    \* two anchors one below the other, rejected columns before accepted ones
    Block(cDiana, cDzien, << <<c32, t0800, t1600>>, SameDay >>)
      \o Block(cDiana, cDzien, << <<c12, tIso0130, tIso8>>, Overnight >>),
    Block(cDiana, cDzien, << <<c12, t0800, t0800>>, SameDay >>)
      \o Block(cDiana, cDzien, <<SameDay, Overnight>>) }

Grids == GeneratedGrids \cup ExampleGrids

\* The uploaded file: its extension class, whether it can be read and has a
\* "Plan" sheet, and that sheet's cells as strings.
Uploads ==
  {[ext |-> "ods", status |-> "ok", plan |-> g] : g \in Grids}
    \cup {[ext |-> e, status |-> "ok", plan |-> g] :
            e \in {"xlsx", "xls"}, g \in ExampleGrids}
    \cup {[ext |-> e, status |-> st, plan |-> <<>>] :
            e \in {"ods", "xlsx", "xls", "other"}, st \in {"noPlan", "corrupt"}}

\* The (year, month) form fields.
Dates == { <<2024, 1>>, <<2024, 2>>, <<2023, 2>>, <<2024, 3>>, <<2023, 12>> }

(***************************************************************************)
(* The handler as a state machine.                                         *)
(***************************************************************************)
VARIABLES upload, month, year, df, pc, row, col, c, events, stdout, response

vars == <<upload, month, year, df, pc, row, col, c, events, stdout, response>>

NoResponse == [status |-> 0, media_type |-> "", content |-> <<>>]

JSONResponse(code) == [status |-> code, media_type |-> "application/json", content |-> <<>>]

StreamingResponse(body) == [status |-> 200, media_type |-> "text/calendar", content |-> body]

Init ==
  /\ upload \in Uploads
  /\ \E d \in Dates : year = d[1] /\ month = d[2]
  /\ df = <<>>
  /\ pc = "read"
  /\ row = 0
  /\ col = 0
  /\ c = 0
  /\ events = {}
  /\ stdout = <<>>
  /\ response = NoResponse

\* Lines 17-54: the file is read into df, or an error response is returned.
ReadFile ==
  /\ pc = "read"
  /\ LET failure ==
           IF upload.ext = "other" THEN 400
           ELSE IF upload.status = "corrupt" THEN 500
           ELSE IF upload.status = "noPlan"
                THEN (IF upload.ext = "ods" THEN 400 ELSE 500)
           ELSE 0
     IN  IF failure # 0
         THEN /\ response' = JSONResponse(failure)
              /\ pc' = "done"
              /\ df' = df
         ELSE /\ df' = upload.plan
              /\ pc' = "for"
              /\ response' = response
  /\ UNCHANGED <<upload, month, year, row, col, c, events, stdout>>

\* Lines 56-66: the two for loops, one test or one cell per step.
ForStep ==
  /\ pc = "for"
  /\ IF row >= Rows(df)
     THEN pc' = "respond" /\ UNCHANGED <<row, col, c>>
     ELSE IF col >= Cols(df)
     THEN row' = row + 1 /\ col' = 0 /\ UNCHANGED <<pc, c>>
     ELSE IF IsAnchor(df, row, col)
     THEN c' = col + 1 /\ pc' = "while" /\ UNCHANGED <<row, col>>
     ELSE col' = col + 1 /\ UNCHANGED <<pc, row, c>>
  /\ UNCHANGED <<upload, month, year, df, events, stdout, response>>

\* Line 67: the while test; past the last column the for loop goes on.
WhileTest ==
  /\ pc = "while"
  /\ IF c < Cols(df)
     THEN pc' = "body" /\ col' = col
     ELSE pc' = "for" /\ col' = col + 1
  /\ UNCHANGED <<upload, month, year, df, row, c, events, stdout, response>>

\* Lines 68-115: one iteration of the while loop.
ApplyOutcome(out) ==
  /\ c' = IF out.kind = "continue" THEN c ELSE c + 1
  /\ events' = IF out.kind = "event" THEN AddEvent(events, out.begin, out.end)
               ELSE events
  /\ stdout' = IF out.kind = "error"
               THEN Append(stdout, [day |-> out.day,
                                    start_raw |-> RawBelow(df, row, 2, c),
                                    end_raw |-> RawBelow(df, row, 3, c)])
               ELSE stdout

WhileBody ==
  /\ pc = "body"
  /\ ApplyOutcome(ProcessColumn(df, row, c, month, year))
  /\ pc' = "while"
  /\ UNCHANGED <<upload, month, year, df, row, col, response>>

\* Lines 117-124: the calendar is serialized, its events in the iteration
\* order of the set, and returned.
Respond ==
  /\ pc = "respond"
  /\ \E order \in Orderings(events) :
       response' = StreamingResponse(order)
  /\ pc' = "done"
  /\ UNCHANGED <<upload, month, year, df, row, col, c, events, stdout>>

Next == ReadFile \/ ForStep \/ WhileTest \/ WhileBody \/ Respond

Spec == Init /\ [][Next]_vars

(***************************************************************************)
(* Vocabulary of the properties, defined apart from the handler's model:   *)
(* calendar arithmetic by month lengths, anchors and shifts read off the   *)
(* grid.                                                                   *)
(***************************************************************************)
\* Numbers that order dates, and times of day, as time does.
DateKey(dt) == (dt.year * 13 + dt.month) * 32 + dt.day

SecondOfDay(dt) == (dt.hour * 60 + dt.minute) * 60 + dt.second

\* a is strictly later than b.
After(a, b) ==
  \/ DateKey(a) > DateKey(b)
  \/ DateKey(a) = DateKey(b) /\ SecondOfDay(a) > SecondOfDay(b)

LeapYear(y) == (y % 4 = 0 /\ y % 100 # 0) \/ y % 400 = 0

MonthLength(y, m) ==
  IF m \in {4, 6, 9, 11} THEN 30
  ELSE IF m = 2 THEN (IF LeapYear(y) THEN 29 ELSE 28)
  ELSE 31

ValidDate(y, m, d) == m \in 1..12 /\ d \in 1..MonthLength(y, m)

\* The calendar day after y-m-d, at the given time of day.
FollowingDay(y, m, d, hour, minute, second) ==
  LET date == IF d < MonthLength(y, m) THEN <<y, m, d + 1>>
              ELSE IF m < 12 THEN <<y, m + 1, 1>>
              ELSE <<y + 1, 1, 1>>
  IN  [year |-> date[1], month |-> date[2], day |-> date[3],
       hour |-> hour, minute |-> minute, second |-> second]

SameDate(a, b) == a.year = b.year /\ a.month = b.month /\ a.day = b.day

\* (r, k) is an accepted anchor of grid g.
AcceptedAnchor(g, r, k) ==
  /\ r \in 0..(Rows(g) - 1)
  /\ k \in 0..(Cols(g) - 1)
  /\ lower(strip(g[r + 1][k + 1])) = MarkerName
  /\ r + 1 < Rows(g)
  /\ lower(strip(g[r + 2][k + 1])) = HeaderMarker

AcceptedAnchors(g) ==
  {a \in (0..(Rows(g) - 1)) \X (0..(Cols(g) - 1)) : AcceptedAnchor(g, a[1], a[2])}

\* The header, start and end cells of the column being processed.
HeaderHere == strip(iat(df, row + 1, c))

StartHere == RawBelow(df, row, 2, c)

EndHere == RawBelow(df, row, 3, c)

DayHere == int(HeaderHere).value

IsDayColumnHere ==
  /\ pc = "body"
  /\ int(HeaderHere).ok
  /\ DayHere \in 1..31

\* The event the step adds, when it adds one.
Added == CHOOSE e \in events' \ events : TRUE

\* The shifts the day columns of the grid yield, in scan order: anchors
\* row by row, the columns right of each anchor in ascending order.  The
\* triple (anchor row r, anchor column a, day column k) has index
\* (r * width + a) * width + k.
YieldsShift(g, m, y, idx) ==
  /\ idx % Cols(g) > (idx \div Cols(g)) % Cols(g)
  /\ AcceptedAnchor(g, idx \div (Cols(g) * Cols(g)), (idx \div Cols(g)) % Cols(g))
  /\ ProcessColumn(g, idx \div (Cols(g) * Cols(g)), idx % Cols(g), m, y).kind = "event"

ShiftAt(g, m, y, idx) ==
  LET o == ProcessColumn(g, idx \div (Cols(g) * Cols(g)), idx % Cols(g), m, y)
  IN  [begin |-> o.begin, end |-> o.end]

ShiftsOf(g, m, y) ==
  LET all  == [i \in 1..(Rows(g) * Cols(g) * Cols(g)) |-> i - 1]
      hits == SelectSeq(all, LAMBDA idx : YieldsShift(g, m, y, idx))
  IN  [j \in 1..Len(hits) |-> ShiftAt(g, m, y, hits[j])]

ExpectedShifts == ShiftsOf(df, month, year)

\* The (begin, end) pairs of the events of the response, in its order.
ReturnedShifts ==
  [i \in 1..Len(response.content) |->
     [begin |-> response.content[i].begin, end |-> response.content[i].end]]

Returned == pc = "done" /\ response.status = 200

(***************************************************************************)
(* Properties.                                                             *)
(***************************************************************************)

\* C1: every event of the result collection, and of the response, ends
\* strictly after it begins, whichever branch produced the end.
C1_EndAfterStart ==
  /\ \A e \in events : After(e.end, e.begin)
  /\ \A i \in 1..Len(response.content) :
       After(response.content[i].end, response.content[i].begin)

\* C1 witness: a response holding a same-day shift, an overnight shift moved to the next
\* day, and a shift ending at the "24:00" midnight.
C1_Witness ==
  /\ Returned
  /\ \E e \in events : SameDate(e.begin, e.end)
  /\ \E e \in events : ~SameDate(e.begin, e.end) /\ e.end.hour = 6
  /\ \E e \in events : ~SameDate(e.begin, e.end) /\ e.end.hour = 0 /\ e.begin.day = 31

\* C2: the column index of the day-header scan strictly advances on every
\* iteration of the while loop.
C2_ColumnAdvances == [][pc = "body" => c' > c]_vars

\* C3: a day column that yields no shift (header out of range or not a
\* number, an empty time cell, start equal to end, unparseable time text,
\* impossible date) adds no event and the scan moves on to the next column.
C3_RejectedColumnSkipped ==
  [][pc = "body" /\ ProcessColumn(df, row, c, month, year).kind # "event"
       => events' = events /\ c' = c + 1 /\ pc' = "while"]_vars

\* A day column on a valid date with a valid start time and an end cell
\* "24:00" or "24:00:00".
C4_SentinelPre ==
  /\ IsDayColumnHere
  /\ ValidDate(year, month, DayHere)
  /\ EndHere \in {t2400, t240000}
  /\ StartHere # EndHere
  /\ strptime(ComposeText(year, month, DayHere, StartHere)).ok

\* C4: for a valid day with a valid start time on a valid date and an end
\* cell "24:00" or "24:00:00", the step adds a shift that begins at the
\* start time and ends at midnight of the following calendar day.
C4_MidnightOfNextDay ==
  [][C4_SentinelPre
       => /\ events' # events
          /\ Added.begin = strptime(ComposeText(year, month, DayHere, StartHere)).dt
          /\ Added.end = FollowingDay(year, month, DayHere, 0, 0, 0)]_vars

\* The start, and the end composed on the same day, of the column in hand.
C5_Start == strptime(ComposeText(year, month, DayHere, StartHere)).dt

C5_SameDayEnd == strptime(ComposeText(year, month, DayHere, EndHere)).dt

\* C5: for an end cell other than "24:00", the shift added ends at the end
\* time on the following calendar day when that time on the same day is not
\* after the start, and on the same day otherwise.
C5_OvernightOneDay ==
  [][pc = "body" /\ events' # events /\ EndHere # MidnightSentinel
       => /\ Added.begin = C5_Start
          /\ SameDate(C5_Start, C5_SameDayEnd)
          /\ C5_Start.day = DayHere /\ C5_Start.month = month /\ C5_Start.year = year
          /\ IF ~After(C5_SameDayEnd, C5_Start)
             THEN Added.end = FollowingDay(year, month, DayHere, C5_SameDayEnd.hour,
                                           C5_SameDayEnd.minute, C5_SameDayEnd.second)
             ELSE Added.end = C5_SameDayEnd]_vars

\* C5 witness: the leap-year shift 2024-02-28 22:00 -> 2024-02-29 06:00 next to a
\* same-day shift.
C5_Witness ==
  /\ \E e \in events :
       /\ e.begin = [year |-> 2024, month |-> 2, day |-> 28,
                     hour |-> 22, minute |-> 0, second |-> 0]
       /\ e.end = [year |-> 2024, month |-> 2, day |-> 29,
                   hour |-> 6, minute |-> 0, second |-> 0]
  /\ \E e \in events : SameDate(e.begin, e.end) /\ After(e.end, e.begin)

\* The columns right of column a whose cell in header row r is a day
\* number 1..31.
DayColumnsRightOf(g, r, a) ==
  {k \in (a + 1)..(Cols(g) - 1) :
     int(strip(iat(g, r, k))).ok /\ int(strip(iat(g, r, k))).value \in 1..31}

\* C6: from an accepted anchor the scan examines every column to the right
\* and stops at none: while a column whose header cell is a day number 1..31
\* lies further right, the scan goes on to the next column, whatever the
\* column in hand holds.
C6_EveryDayColumnExamined ==
  [][pc = "body" /\ (\E k \in DayColumnsRightOf(df, row + 1, col) : k > c)
       => c' = c + 1 /\ pc' = "while"]_vars

\* C7: the header scan runs only at accepted anchors; events exist only
\* when an accepted anchor has both time rows below its header row; and a
\* grid without such an anchor is answered by an empty calendar, no error.
C7_OnlyFromAcceptedAnchors ==
  /\ pc \in {"while", "body"} => AcceptedAnchor(df, row, col)
  /\ events # {} => \E a \in AcceptedAnchors(df) : a[1] + 3 < Rows(df)
  /\ (pc = "done" /\ upload.status = "ok" /\ upload.ext # "other"
        /\ ~(\E a \in AcceptedAnchors(upload.plan) : a[1] + 3 < Rows(upload.plan)))
       => response = StreamingResponse(<<>>)

\* C7 witness: a returned scan of a grid that has the marker name over day columns with
\* times, but no accepted anchor.
C7_Witness ==
  /\ Returned
  /\ AcceptedAnchors(df) = {}
  /\ \E r \in 0..(Rows(df) - 1), k \in 0..(Cols(df) - 1) :
       /\ lower(strip(iat(df, r, k))) = MarkerName
       /\ r + 3 < Rows(df)
       /\ k + 1 < Cols(df)
       /\ int(strip(iat(df, r + 1, k + 1))).ok

\* C8: a scan of a successfully read grid that yields no shift is answered
\* by a client error.
C8_NoShiftsIsClientError ==
  (pc = "done" /\ upload.status = "ok" /\ upload.ext # "other" /\ events = {})
    => response.status \in 400..499

\* The supported textual forms of a time cell: HH:MM, HH:MM:SS, and an
\* ISO-8601 duration such as PT7H30M.
IsClockText(s) ==
  /\ Len(s) \in {5, 8}
  /\ \A i \in 1..Len(s) : IF i \in {3, 6} THEN s[i] = ":" ELSE s[i] \in Digits
  /\ DigitsToNat(SubSeq(s, 1, 2)) <= 23
  /\ DigitsToNat(SubSeq(s, 4, 5)) <= 59
  /\ Len(s) = 8 => DigitsToNat(SubSeq(s, 7, 8)) <= 59

IsIsoDuration(s) ==
  /\ Len(s) > 2
  /\ s[1] = "P" /\ s[2] = "T"
  /\ \A i \in 3..Len(s) : s[i] \in Digits \cup {"H", "M", "S"}
  /\ s[3] \in Digits
  /\ s[Len(s)] \in {"H", "M", "S"}

SupportedForm(s) == IsClockText(s) \/ IsIsoDuration(s)

\* C9: a non-empty, textually different start/end pair on a valid date is
\* accepted in each supported form: HH:MM, HH:MM:SS, ISO-8601 duration.
C9_EverySupportedFormAccepted ==
  [][/\ IsDayColumnHere
     /\ ValidDate(year, month, DayHere)
     /\ StartHere # EndHere
     /\ SupportedForm(StartHere)
     /\ SupportedForm(EndHere)
     => events' # events]_vars

\* C10: the response lists the accepted shifts in scan order: anchors row
\* by row, the day columns right of each anchor from left to right.
C10_InScanOrder == Returned => ReturnedShifts = ExpectedShifts

====
